---- MODULE Spec2Model ----
(***************************************************************************)
(* A model of the command line of the package scorer: processUrls,         *)
(* runTests, getGithubUrlFromNpm and the ASSERT functions of               *)
(* src/src/cli.ts, the repository identity of src/src/Metrics.ts and the   *)
(* internal/external classifier of src/db/database.sql.                    *)
(*                                                                         *)
(* Strings are sequences of one-character strings, so that includes(),     *)
(* the owner/repo regular expression and SQL LIKE are computed on          *)
(* characters as the code computes them. Numbers are binary floating       *)
(* point, rounded to nearest with ties to even.                            *)
(***************************************************************************)
EXTENDS Integers, Sequences, FiniteSets, TLC

\* ---------------------------------------------------------------- bounds

\* The longest batch file, in lines.
MaxLines == 2

\* The most dependencies one evaluated package reports.
MaxDeps == 1

\* The longest url and the longest configured domain handed to the classifier.
MaxUrlLen == 3

MaxDomainLen == 2

\* The most pieces a url handed to the Metrics constructor is put together from.
MaxPieces == 5

\* The largest number handed to the ASSERT functions, in hundredths.
MaxCenti == 8

\* The bits of the significand of a number. A JavaScript number has 53; the
\* model keeps the binary format and its rounding and shortens the significand.
MantissaBits == 13

\* The longest LOG_LEVEL put together from single characters.
MaxLevelLen == 2

\* Scores are multiples of 1/ScoreScale, weights multiples of 1/WeightScale.
ScoreScale == 2

WeightScale == 4

\* ------------------------------------------------------------- constants

\* runTests' safety floor on the remaining rate limit, the only floor in the code.
QuotaFloor == 300

\* The package id written into metricsValues and scoresValues.
ExamplePackageId == 3

\* The rows database.sql inserts into packages_combined when it creates it.
SchemaExampleRows == 2

\* --------------------------------------------------------------- strings

HTTPS == <<"h","t","t","p","s",":","/","/">>

GITHUB_COM == <<"g","i","t","h","u","b",".","c","o","m">>

NPMJS_COM == <<"n","p","m","j","s",".","c","o","m">>

GITLAB_COM == <<"g","i","t","l","a","b",".","c","o","m">>

\* The value database.sql stores under the constants key 'internal_domain'.
InternalDomain == <<"i","n","t","e","r","n","a","l",".","a","c","m","e",".","c","o","m">>

\* The package_version literal of packageValues.
PackageVersion == <<"1",".","0",".","0">>

DOT_GIT == <<".","g","i","t">>

GIT_PLUS == <<"g","i","t","+">>

GIT_SCHEME == <<"g","i","t",":","/","/">>

SSH_GIT_AT_GITHUB == <<"s","s","h",":","/","/","g","i","t","@">> \o GITHUB_COM

\* String.prototype.includes
Includes(s, p) ==
    \E i \in 0..(Len(s) - Len(p)) : SubSeq(s, i + 1, i + Len(p)) = p

StartsWith(s, p) == Len(s) >= Len(p) /\ SubSeq(s, 1, Len(p)) = p

EndsWith(s, p) == Len(s) >= Len(p) /\ SubSeq(s, Len(s) - Len(p) + 1, Len(s)) = p

\* The end of the longest run of characters other than '/' that starts at a
\* (a - 1 when s[a] is '/' or a is past the end): the greedy [^/]+ .
RECURSIVE RunEnd(_, _)
RunEnd(s, a) ==
    IF a > Len(s) \/ s[a] = "/" THEN a - 1 ELSE RunEnd(s, a + 1)

\* The regular expression without its second group: /github\.com\/([^/]+)/ .
RegexAtOwnerOnly(url, p) ==
    LET a == p + Len(GITHUB_COM) + 1
    IN  /\ p + Len(GITHUB_COM) <= Len(url)
        /\ SubSeq(url, p, p + Len(GITHUB_COM) - 1) = GITHUB_COM
        /\ url[p + Len(GITHUB_COM)] = "/"
        /\ RunEnd(url, a) >= a

\* /github\.com\/([^/]+)\/([^/]+)/ tried at position p of url.
RegexAt(url, p) ==
    LET a == p + Len(GITHUB_COM) + 1
        oe == RunEnd(url, a)
        re == RunEnd(url, oe + 2)
    IN  /\ p + Len(GITHUB_COM) <= Len(url)
        /\ SubSeq(url, p, p + Len(GITHUB_COM) - 1) = GITHUB_COM
        /\ url[p + Len(GITHUB_COM)] = "/"
        /\ oe >= a
        /\ oe + 1 <= Len(url)
        /\ url[oe + 1] = "/"
        /\ re >= oe + 2

\* url.match(regex) is not null
RegexMatches(url) == \E p \in 1..Len(url) : RegexAt(url, p)

\* Metrics.getRepoData: owner and repo of the leftmost match; "throws" marks
\* the Error it raises when there is none.
getRepoData(url) ==
    IF ~RegexMatches(url)
    THEN [threw |-> TRUE, owner |-> <<>>, repo |-> <<>>]
    ELSE LET p  == CHOOSE q \in 1..Len(url) :
                      RegexAt(url, q) /\ \A r \in 1..(q - 1) : ~RegexAt(url, r)
             a  == p + Len(GITHUB_COM) + 1
             oe == RunEnd(url, a)
         IN  [threw |-> FALSE,
              owner |-> SubSeq(url, a, oe),
              repo  |-> SubSeq(url, oe + 2, RunEnd(url, oe + 2))]

\* getGithubUrlFromNpm's chain of replace() calls on the registry's repository url:
\* /^git\+/ -> '', /^ssh:\/\/git@github.com/ -> 'https://github.com' (the dot of
\* the pattern is unescaped and matches any character), /\.git$/ -> '',
\* /^git:\/\// -> 'https://'.
StripGitPlus(s) ==
    IF StartsWith(s, GIT_PLUS) THEN SubSeq(s, Len(GIT_PLUS) + 1, Len(s)) ELSE s

ReplaceSsh(s) ==
    LET n == Len(SSH_GIT_AT_GITHUB)
    IN  IF /\ Len(s) >= n
           /\ SubSeq(s, 1, n - 4) = SubSeq(SSH_GIT_AT_GITHUB, 1, n - 4)
           /\ SubSeq(s, n - 2, n) = <<"c","o","m">>
        THEN HTTPS \o GITHUB_COM \o SubSeq(s, n + 1, Len(s))
        ELSE s

StripDotGit(s) ==
    IF EndsWith(s, DOT_GIT) THEN SubSeq(s, 1, Len(s) - Len(DOT_GIT)) ELSE s

ReplaceGitScheme(s) ==
    IF StartsWith(s, GIT_SCHEME)
    THEN HTTPS \o SubSeq(s, Len(GIT_SCHEME) + 1, Len(s))
    ELSE s

NormalizeRepoUrl(repoUrl) ==
    ReplaceGitScheme(StripDotGit(ReplaceSsh(StripGitPlus(repoUrl))))

\* npmUrl.split('/').pop(): what follows the last '/'.
RECURSIVE LastSegment(_)
LastSegment(s) ==
    IF s = <<>> \/ s[Len(s)] = "/"
    THEN <<>>
    ELSE LastSegment(SubSeq(s, 1, Len(s) - 1)) \o <<s[Len(s)]>>

\* What the npm registry answers for a package: the request fails, the package
\* has no repository field, or it has one with this url.
RegistryError == [kind |-> "error", url |-> <<>>]

NoRepository == [kind |-> "undefined", url |-> <<>>]

RepositoryUrl(s) == [kind |-> "url", url |-> s]

NoUrl == <<"null">>

\* getGithubUrlFromNpm with the registry's answer as an input; NoUrl is null.
getGithubUrlFromNpm(npmUrl, answer) ==
    IF LastSegment(npmUrl) = <<>> THEN NoUrl
    ELSE IF answer.kind = "error" THEN NoUrl
    ELSE IF answer.kind = "url" /\ answer.url # <<>> /\ Includes(answer.url, GITHUB_COM)
         THEN NormalizeRepoUrl(answer.url)
         ELSE NoUrl

\* SQL LIKE on characters: '%' matches any run, '_' any one character, a
\* backslash takes the next pattern character literally.
RECURSIVE LikeMatch(_, _)
LikeMatch(s, p) ==
    IF p = <<>> THEN s = <<>>
    ELSE IF Head(p) = "%"
         THEN \E k \in 0..Len(s) : LikeMatch(SubSeq(s, k + 1, Len(s)), Tail(p))
    ELSE IF Head(p) = "_"
         THEN s # <<>> /\ LikeMatch(Tail(s), Tail(p))
    ELSE IF Head(p) = "\\"
         THEN /\ Len(p) >= 2
              /\ s # <<>>
              /\ Head(s) = p[2]
              /\ LikeMatch(Tail(s), SubSeq(p, 3, Len(p)))
    ELSE s # <<>> /\ Head(s) = Head(p) /\ LikeMatch(Tail(s), Tail(p))

\* is_internal_dependency with the constants row as a parameter:
\* dependency_url LIKE '%' || internal_domain || '%'.
is_internal_dependency(dependency_url, internal_domain) ==
    LikeMatch(dependency_url, <<"%">> \o internal_domain \o <<"%">>)

\* ------------------------------------------------------------- numbers

\* A number is held as a whole count of 2^-FractionBits: with seven bits more
\* than the significand, 0.005 (the smallest literal of the ASSERT functions)
\* and everything above it has its full significand.
FractionBits == MantissaBits + 7

RECURSIVE Pow2(_)
Pow2(n) == IF n <= 0 THEN 1 ELSE 2 * Pow2(n - 1)

RECURSIVE BitLength(_)
BitLength(m) == IF m <= 0 THEN 0 ELSE 1 + BitLength(m \div 2)

\* Math.abs
Abs(x) == IF x < 0 THEN 0 - x ELSE x

\* The whole number nearest to num / den, a tie going to the even one.
RoundQuotient(num, den) ==
    LET q == num \div den
        r == num % den
    IN  IF 2 * r > den \/ (2 * r = den /\ q % 2 = 1) THEN q + 1 ELSE q

\* How many low bits a magnitude has to give up to fit the significand.
Excess(m) ==
    IF BitLength(m) > MantissaBits THEN BitLength(m) - MantissaBits ELSE 0

\* The number an exact result is rounded to: round to nearest, ties to even.
ToNumber(x) ==
    LET m == Abs(x)
        unit == Pow2(Excess(m))
        r == RoundQuotient(m, unit) * unit
    IN  IF x < 0 THEN 0 - r ELSE r

\* The number a decimal literal n/d denotes: the nearest one.
Literal(n, d) ==
    LET unit == Pow2(Excess((n * Pow2(FractionBits)) \div d))
    IN  RoundQuotient(n * Pow2(FractionBits), d * unit) * unit

\* The operators - and + of numbers.
Minus(x, y) == ToNumber(x - y)

Plus(x, y) == ToNumber(x + y)

\* ASSERT_EQ with <= in the place of < .
ASSERT_EQ_Inclusive(actual, expected) ==
    LET threshold == Literal(1, 100)
    IN  IF Abs(Minus(expected, actual)) <= threshold THEN 1 ELSE 0

\* Lines 378-389
ASSERT_EQ(actual, expected) ==
    LET threshold == Literal(1, 100)
    IN  IF Abs(Minus(expected, actual)) < threshold THEN 1 ELSE 0

\* Lines 404-413
ASSERT_NEAR(actual, expected, threshold) ==
    IF Abs(Minus(expected, actual)) < threshold THEN 1 ELSE 0

\* Lines 428-439
ASSERT_LT(actual, expected) ==
    LET threshold == Literal(5, 1000)
    IN  IF actual < Plus(expected, threshold) THEN 1 ELSE 0

\* Lines 453-464
ASSERT_GT(actual, expected) ==
    LET threshold == Literal(1, 100)
    IN  IF actual > Minus(expected, threshold) THEN 1 ELSE 0

\* ------------------------------------------------------------ net score

\* The five sub-metrics a NetScore holds.
MetricKind == {"rampUp", "busFactor", "correctness", "license", "maintainability"}

RECURSIVE SumOver(_, _)
SumOver(f, keys) ==
    IF keys = {} THEN 0
    ELSE LET k == CHOOSE x \in keys : TRUE
         IN  f[k] + SumOver(f, keys \ {k})

\* The sum of the sub-scores with no weights applied.
UnweightedSum(weight, score) ==
    WeightScale * SumOver(score, MetricKind)

\* netScore = SUM weight[k] * score[k], in units of 1/(WeightScale * ScoreScale).
WeightedSum(weight, score) ==
    SumOver([k \in MetricKind |-> weight[k] * score[k]], MetricKind)

\* Lines 178-193 as a function of one line and the registry's answer for it:
\* the pairs the line adds to githubUrls.
EntryOf(url, answer) ==
    IF url = <<>> THEN <<>>
    ELSE IF Includes(url, GITHUB_COM) THEN <<[native |-> url, url |-> url]>>
    ELSE IF Includes(url, NPMJS_COM)
         THEN LET githubUrl == getGithubUrlFromNpm(url, answer)
              IN  IF githubUrl # NoUrl
                  THEN <<[native |-> url, url |-> githubUrl]>>
                  ELSE <<>>
    ELSE <<>>

\* The first loop of processUrls as a function of the lines and of the
\* registry's answers, one per line.
RECURSIVE ResolveLines(_, _)
ResolveLines(lines, answers) ==
    IF lines = <<>> THEN <<>>
    ELSE EntryOf(Head(lines), Head(answers)) \o ResolveLines(Tail(lines), Tail(answers))

\* ------------------------------------------------------------ the inputs

\* https://github.com/o/r
L_GH == HTTPS \o GITHUB_COM \o <<"/","o","/","r">>

\* https://github.com : names the host, but no owner and repository
L_GH_BAD == HTTPS \o GITHUB_COM

\* https://github.com/internal.acme.com/q : an owner named like the internal domain
L_GH_INT == HTTPS \o GITHUB_COM \o <<"/">> \o InternalDomain \o <<"/","q">>

\* https://www.npmjs.com/package/p
L_NPM == HTTPS \o <<"w","w","w",".">> \o NPMJS_COM
             \o <<"/","p","a","c","k","a","g","e","/","p">>

\* https://gitlab.com/o/r : an unsupported host
L_OTHER == HTTPS \o GITLAB_COM \o <<"/","o","/","r">>

\* A line of one space: blank, but not the empty string.
L_BLANK == <<" ">>

\* The lines a batch file is made of; <<>> is the empty line.
InputLines == {<<>>, L_GH, L_GH_BAD, L_GH_INT, L_NPM, L_OTHER}

\* fs.readFileSync(...).split('\n') always yields at least one element.
Files == UNION {[1..n -> InputLines] : n \in 1..MaxLines}

\* The files whose lines may also be the whitespace line.
FilesWithBlanks == UNION {[1..n -> InputLines \cup {L_BLANK}] : n \in 1..MaxLines}

\* The registry's possible answers to the lookup of a package.
RegistryAnswers ==
    { RegistryError,
      NoRepository,
      RepositoryUrl(GIT_PLUS \o L_GH \o DOT_GIT),
      RepositoryUrl(GIT_PLUS \o SSH_GIT_AT_GITHUB \o <<"/","o","/","r">> \o DOT_GIT),
      RepositoryUrl(L_OTHER) }

\* The remaining rate limit when the run starts: below the floor, and just
\* above it (the calls of one package take it below).
StartQuotas == {QuotaFloor - 1, QuotaFloor + 2}

\* The numbers of dependencies an evaluated package may report.
DependencyCounts == {0, MaxDeps}

\* ------------------------------------------------------------- the state

VARIABLES
    pc,                 \* where processUrls stands
    file,               \* the lines of the batch file
    remaining,          \* the API's remaining rate limit
    status,             \* the rate limit read at the start of the run
    urls,               \* processUrls' urls
    u,                  \* the line the first loop stands at
    githubUrls,         \* processUrls' githubUrls
    g,                  \* the entry the second loop stands at
    netScore,           \* the NetScore of the current entry
    packageId,          \* processUrls' packageId
    d,                  \* the dependency the inner loop stands at
    stdout,             \* the lines written to process.stdout
    logged,             \* the messages handed to logger.error
    packages_combined,  \* the rows of the tables
    dependencies,
    metrics,
    scores,
    evalStarted,        \* history: the entries whose evaluate() was called
    evalCompleted,      \* history: the entries whose evaluate() resolved
    finished,           \* history: the entries whose loop body ran to its end
    pkgSent,            \* history: the package inserts handed to pool.query
    quotaSeen,          \* history: the rate limit left when each evaluation began
    clsPc,              \* the classifier call: its position, inputs and result
    clsUrl,
    clsDomain,
    clsResult,
    exited,             \* the codes handed to process.exit
    callPc,             \* a function called on its own: position, arguments, result
    callArgs,
    callResult,
    testPc,             \* runTests: its position, the suites begun and ended,
    suiteEvents,        \* and its apiRemaining
    apiRemaining

runVars == <<pc, file, remaining, status, urls, u, githubUrls, g, netScore,
             packageId, d, stdout, logged>>

dbVars == <<packages_combined, dependencies, metrics, scores>>

histVars == <<evalStarted, evalCompleted, finished, pkgSent, quotaSeen>>

clsVars == <<clsPc, clsUrl, clsDomain, clsResult>>

callVars == <<callPc, callArgs, callResult>>

testVars == <<testPc, suiteEvents, apiRemaining>>

\* What processUrls never reads or writes.
offVars == <<clsVars, exited, callVars, testVars>>

vars == <<runVars, dbVars, histVars, offVars>>

NoNetScore == [NativeURL |-> <<>>, url |-> <<>>, owner |-> <<>>, repo |-> <<>>,
               completed |-> {}, computed |-> FALSE, dependencies |-> 0, src |-> 0]

NoPackageId == 0

\* The two rows database.sql inserts into packages_combined (ids 1 and 2).
ExampleRows ==
    << [package_id |-> 1,
        package_name |-> <<"l","o","d","a","s","h">>,
        repo_link |-> HTTPS \o GITHUB_COM
                        \o <<"/","l","o","d","a","s","h","/","l","o","d","a","s","h">>,
        is_internal |-> FALSE,
        package_version |-> <<"4",".","1","7",".","2","1">>,
        src |-> 0],
       [package_id |-> SchemaExampleRows,
        package_name |-> <<"a","c","m","e","-","u","t","i","l","s">>,
        repo_link |-> HTTPS \o InternalDomain
                        \o <<"/","r","e","p","o","/","a","c","m","e","-","u","t","i","l","s">>,
        is_internal |-> TRUE,
        package_version |-> <<"1",".","2",".","0">>,
        src |-> 0] >>

ClsIdle ==
    /\ clsPc = "idle"
    /\ clsUrl = <<>>
    /\ clsDomain = <<>>
    /\ clsResult = FALSE

NoArgs == <<>>

NoResult == <<>>

CallIdle ==
    /\ callPc = "idle"
    /\ callArgs = NoArgs
    /\ callResult = NoResult

TestsIdle ==
    /\ testPc = "idle"
    /\ suiteEvents = <<>>
    /\ apiRemaining = <<>>

Init ==
    /\ pc = "start"
    /\ file \in Files
    /\ remaining \in StartQuotas
    /\ status = -1
    /\ urls = <<>>
    /\ u = 0
    /\ githubUrls = <<>>
    /\ g = 0
    /\ netScore = NoNetScore
    /\ packageId = NoPackageId
    /\ d = 0
    /\ stdout = <<>>
    /\ logged = <<>>
    /\ packages_combined = ExampleRows
    /\ dependencies = <<>>
    /\ metrics = <<>>
    /\ scores = <<>>
    /\ evalStarted = <<>>
    /\ evalCompleted = <<>>
    /\ finished = <<>>
    /\ pkgSent = <<>>
    /\ quotaSeen = <<>>
    /\ ClsIdle
    /\ exited = <<>>
    /\ CallIdle
    /\ TestsIdle

\* ----------------------------------------------------------- processUrls

\* Lines 171-176: the rate limit is read and logged, the file is read and split.
\* Nothing compares the rate limit with a floor.
ReadRateLimit ==
    /\ pc = "start"
    /\ status' = remaining
    /\ urls' = file
    /\ githubUrls' = <<>>
    /\ u' = 1
    /\ pc' = "resolve"
    /\ UNCHANGED <<file, remaining, g, netScore, packageId, d, stdout, logged>>
    /\ UNCHANGED <<dbVars, histVars, offVars>>

AtLine == pc = "resolve" /\ u \in 1..Len(urls)

\* Push with unshift in the place of push: the list comes out in reverse.
PushFront(list, native, url, line) ==
    <<[native |-> native, url |-> url, line |-> line]>> \o list

\* Push that keeps the resolved url in both places of the pair.
PushResolved(list, native, url, line) ==
    Append(list, [native |-> url, url |-> url, line |-> line])

\* githubUrls.push([native, url]); line is the input line the entry came from.
Push(list, native, url, line) ==
    Append(list, [native |-> native, url |-> url, line |-> line])

NextLine ==
    /\ u' = u + 1
    /\ UNCHANGED <<pc, file, remaining, status, urls, g, netScore, packageId, d, stdout>>
    /\ UNCHANGED <<dbVars, histVars, offVars>>

\* SkipEmptyLine with break in the place of continue: the first empty line
\* ends the reading of the file.
SkipEmptyLineBreaks ==
    /\ AtLine
    /\ urls[u] = <<>>
    /\ u' = Len(urls) + 1
    /\ UNCHANGED <<pc, file, remaining, status, urls, g, netScore, packageId, d, stdout>>
    /\ UNCHANGED <<githubUrls, logged>>
    /\ UNCHANGED <<dbVars, histVars, offVars>>

\* Lines 179-181: url.trim() discards its result; only '' is skipped.
SkipEmptyLine ==
    /\ AtLine
    /\ urls[u] = <<>>
    /\ NextLine
    /\ UNCHANGED <<githubUrls, logged>>

\* Lines 183-185
PushGithubUrl ==
    /\ AtLine
    /\ urls[u] # <<>>
    /\ Includes(urls[u], GITHUB_COM)
    /\ githubUrls' = Push(githubUrls, urls[u], urls[u], u)
    /\ NextLine
    /\ UNCHANGED logged

\* Lines 186-191, with getGithubUrlFromNpm's logger.error when the request fails.
ResolveNpmUrl(answer) ==
    /\ AtLine
    /\ urls[u] # <<>>
    /\ ~Includes(urls[u], GITHUB_COM)
    /\ Includes(urls[u], NPMJS_COM)
    /\ LET githubUrl == getGithubUrlFromNpm(urls[u], answer)
       IN  githubUrls' = IF githubUrl # NoUrl
                         THEN Push(githubUrls, urls[u], githubUrl, u)
                         ELSE githubUrls
    /\ logged' = IF LastSegment(urls[u]) # <<>> /\ answer.kind = "error"
                 THEN Append(logged, [what |-> "npm", line |-> u])
                 ELSE logged
    /\ NextLine

\* A line of neither kind falls through both branches.
IgnoreLine ==
    /\ AtLine
    /\ urls[u] # <<>>
    /\ ~Includes(urls[u], GITHUB_COM)
    /\ ~Includes(urls[u], NPMJS_COM)
    /\ NextLine
    /\ UNCHANGED <<githubUrls, logged>>

\* Lines 195-202: the first loop is over, the second begins.
StartEvaluation ==
    /\ pc = "resolve"
    /\ u > Len(urls)
    /\ pc' = "loop"
    /\ g' = 1
    /\ UNCHANGED <<file, remaining, status, urls, u, githubUrls, netScore,
                   packageId, d, stdout, logged>>
    /\ UNCHANGED <<dbVars, histVars, offVars>>

\* AtEntry of a loop whose body is not awaited: the next evaluation may start
\* while the inserts of the current entry are still under way.
AtEntryNoAwait ==
    /\ pc \in {"loop", "insert_package", "insert_dependency", "insert_metrics",
               "insert_scores"}
    /\ g \in 1..Len(githubUrls)

AtEntry == pc = "loop" /\ g \in 1..Len(githubUrls)

\* Line 204 when the Metrics constructor throws: getRepoData logs and throws,
\* nothing in processUrls catches, the promise of processUrls is rejected.
NewNetScoreThrows ==
    /\ AtEntry
    /\ getRepoData(githubUrls[g].url).threw
    /\ logged' = Append(logged, [what |-> "invalid", line |-> githubUrls[g].line])
    /\ pc' = "rejected"
    /\ UNCHANGED <<file, remaining, status, urls, u, githubUrls, g, netScore,
                   packageId, d, stdout>>
    /\ UNCHANGED <<dbVars, histVars, offVars>>

\* Lines 204-205: new NetScore(url[0], url[1]) and the call of evaluate().
NewNetScore ==
    /\ AtEntry
    /\ LET data == getRepoData(githubUrls[g].url)
       IN  /\ ~data.threw
           /\ netScore' = [NativeURL    |-> githubUrls[g].native,
                           url          |-> githubUrls[g].url,
                           owner        |-> data.owner,
                           repo         |-> data.repo,
                           completed    |-> {},
                           computed     |-> FALSE,
                           dependencies |-> 0,
                           src          |-> githubUrls[g].line]
    /\ evalStarted' = Append(evalStarted, githubUrls[g].line)
    /\ quotaSeen' = Append(quotaSeen, remaining)
    /\ pc' = "evaluate"
    /\ UNCHANGED <<file, remaining, status, urls, u, githubUrls, g,
                   packageId, d, stdout, logged>>
    /\ UNCHANGED <<dbVars, evalCompleted, finished, pkgSent, offVars>>

\* One of the five evaluators of the current NetScore completes; its call to
\* the API takes one from the remaining rate limit.
EvaluatorCompletes(k) ==
    /\ pc = "evaluate"
    /\ k \notin netScore.completed
    /\ netScore' = [netScore EXCEPT !.completed = @ \cup {k}]
    /\ remaining' = IF remaining > 0 THEN remaining - 1 ELSE 0
    /\ UNCHANGED <<pc, file, status, urls, u, githubUrls, g, packageId, d, stdout, logged>>
    /\ UNCHANGED <<dbVars, histVars, offVars>>

\* NetScore.evaluate resolves: all five evaluators are in, the net score is
\* computed; n is the number of dependencies the NetScore reports.
EvaluateResolves(n) ==
    /\ pc = "evaluate"
    /\ netScore.completed = MetricKind
    /\ netScore' = [netScore EXCEPT !.computed = TRUE, !.dependencies = n]
    /\ evalCompleted' = Append(evalCompleted, netScore.src)
    /\ pc' = "write"
    /\ UNCHANGED <<file, remaining, status, urls, u, githubUrls, g, packageId, d,
                   stdout, logged>>
    /\ UNCHANGED <<dbVars, evalStarted, finished, pkgSent, quotaSeen, offVars>>

\* WriteSummary after an evaluate() that is not awaited.
WriteSummaryNoAwait ==
    /\ pc \in {"evaluate", "write"}
    /\ stdout' = Append(stdout, [src |-> netScore.src, computed |-> netScore.computed])
    /\ pc' = "insert_package"
    /\ UNCHANGED <<file, remaining, status, urls, u, githubUrls, g, netScore,
                   packageId, d, logged>>
    /\ UNCHANGED <<dbVars, histVars, offVars>>

\* Lines 206-207
WriteSummary ==
    /\ pc = "write"
    /\ stdout' = Append(stdout, [src |-> netScore.src, computed |-> netScore.computed])
    /\ pc' = "insert_package"
    /\ UNCHANGED <<file, remaining, status, urls, u, githubUrls, g, netScore,
                   packageId, d, logged>>
    /\ UNCHANGED <<dbVars, histVars, offVars>>

\* Lines 218-227: the row of the package insert. packageName and repoLink are
\* the repository name and url the NetScore was built from.
packageValues ==
    [package_name    |-> netScore.repo,
     repo_link       |-> netScore.url,
     is_internal     |-> FALSE,
     package_version |-> PackageVersion,
     src             |-> netScore.src]

\* Lines 277-284 and 305-313: the rows of the metrics and the scores insert.
metricsValues == [package_id |-> ExamplePackageId, src |-> netScore.src]

scoresValues == [package_id |-> ExamplePackageId, src |-> netScore.src]

\* Lines 252-256
dependencyValues == [package_id |-> packageId, dep |-> d, src |-> netScore.src]

\* INSERT ... RETURNING <serial id>: the row with the next id of its table.
Inserted(table, idField, row) ==
    Append(table, [f \in DOMAIN row \cup {idField} |->
                      IF f = idField THEN Len(table) + 1 ELSE row[f]])

AfterDependency(n) ==
    IF n > netScore.dependencies THEN "insert_metrics" ELSE "insert_dependency"

\* Lines 230-233: the package insert succeeds and returns the new package_id.
InsertPackage ==
    /\ pc = "insert_package"
    /\ pkgSent' = Append(pkgSent, netScore.src)
    /\ packages_combined' = Inserted(packages_combined, "package_id", packageValues)
    /\ packageId' = Len(packages_combined) + 1
    /\ d' = 1
    /\ pc' = AfterDependency(1)
    /\ UNCHANGED <<file, remaining, status, urls, u, githubUrls, g, netScore,
                   stdout, logged>>
    /\ UNCHANGED <<dependencies, metrics, scores>>
    /\ UNCHANGED <<evalStarted, evalCompleted, finished, quotaSeen, offVars>>

\* The catch of lines 234-241 without its return: the error is logged and the
\* loop body goes on.
InsertPackageFailsContinues ==
    /\ pc = "insert_package"
    /\ pkgSent' = Append(pkgSent, netScore.src)
    /\ logged' = Append(logged, [what |-> "package", line |-> netScore.src])
    /\ d' = 1
    /\ pc' = AfterDependency(1)
    /\ UNCHANGED <<file, remaining, status, urls, u, githubUrls, g, netScore,
                   packageId, stdout>>
    /\ UNCHANGED <<dbVars, evalStarted, evalCompleted, finished, quotaSeen, offVars>>

\* Lines 234-241: the package insert fails; the error is logged and
\* processUrls returns.
InsertPackageFails ==
    /\ pc = "insert_package"
    /\ pkgSent' = Append(pkgSent, netScore.src)
    /\ logged' = Append(logged, [what |-> "package", line |-> netScore.src])
    /\ pc' = "returned"
    /\ UNCHANGED <<file, remaining, status, urls, u, githubUrls, g, netScore,
                   packageId, d, stdout>>
    /\ UNCHANGED <<dbVars, evalStarted, evalCompleted, finished, quotaSeen, offVars>>

\* Lines 251-260
InsertDependency ==
    /\ pc = "insert_dependency"
    /\ dependencies' = Inserted(dependencies, "dependency_id", dependencyValues)
    /\ d' = d + 1
    /\ pc' = AfterDependency(d + 1)
    /\ UNCHANGED <<file, remaining, status, urls, u, githubUrls, g, netScore,
                   packageId, stdout, logged>>
    /\ UNCHANGED <<packages_combined, metrics, scores, histVars, offVars>>

\* Lines 261-267
InsertDependencyFails ==
    /\ pc = "insert_dependency"
    /\ logged' = Append(logged, [what |-> "dependency", line |-> netScore.src])
    /\ d' = d + 1
    /\ pc' = AfterDependency(d + 1)
    /\ UNCHANGED <<file, remaining, status, urls, u, githubUrls, g, netScore,
                   packageId, stdout>>
    /\ UNCHANGED <<dbVars, histVars, offVars>>

\* Lines 286-288
InsertMetrics ==
    /\ pc = "insert_metrics"
    /\ metrics' = Inserted(metrics, "metric_id", metricsValues)
    /\ pc' = "insert_scores"
    /\ UNCHANGED <<file, remaining, status, urls, u, githubUrls, g, netScore,
                   packageId, d, stdout, logged>>
    /\ UNCHANGED <<packages_combined, dependencies, scores, histVars, offVars>>

\* The catch of lines 289-295 ending the function as the catch of the package
\* insert does.
InsertMetricsFailsReturns ==
    /\ pc = "insert_metrics"
    /\ logged' = Append(logged, [what |-> "metrics", line |-> netScore.src])
    /\ pc' = "returned"
    /\ UNCHANGED <<file, remaining, status, urls, u, githubUrls, g, netScore,
                   packageId, d, stdout>>
    /\ UNCHANGED <<dbVars, histVars, offVars>>

\* Lines 289-295
InsertMetricsFails ==
    /\ pc = "insert_metrics"
    /\ logged' = Append(logged, [what |-> "metrics", line |-> netScore.src])
    /\ pc' = "insert_scores"
    /\ UNCHANGED <<file, remaining, status, urls, u, githubUrls, g, netScore,
                   packageId, d, stdout>>
    /\ UNCHANGED <<dbVars, histVars, offVars>>

\* NextEntry stepping over an entry.
NextEntrySkips ==
    /\ finished' = Append(finished, netScore.src)
    /\ g' = g + 2
    /\ pc' = "loop"
    /\ UNCHANGED <<file, remaining, status, urls, u, githubUrls, netScore,
                   packageId, d, stdout>>
    /\ UNCHANGED <<evalStarted, evalCompleted, pkgSent, quotaSeen, offVars>>

\* The end of the loop body (line 327): on to the next entry.
NextEntry ==
    /\ finished' = Append(finished, netScore.src)
    /\ g' = g + 1
    /\ pc' = "loop"
    /\ UNCHANGED <<file, remaining, status, urls, u, githubUrls, netScore,
                   packageId, d, stdout>>
    /\ UNCHANGED <<evalStarted, evalCompleted, pkgSent, quotaSeen, offVars>>

\* Lines 315-317
InsertScores ==
    /\ pc = "insert_scores"
    /\ scores' = Inserted(scores, "score_id", scoresValues)
    /\ NextEntry
    /\ UNCHANGED <<logged, packages_combined, dependencies, metrics>>

\* Lines 318-324
InsertScoresFails ==
    /\ pc = "insert_scores"
    /\ logged' = Append(logged, [what |-> "scores", line |-> netScore.src])
    /\ NextEntry
    /\ UNCHANGED dbVars

\* Line 328: the second loop is over, processUrls resolves.
ProcessUrlsReturns ==
    /\ pc = "loop"
    /\ g > Len(githubUrls)
    /\ pc' = "done"
    /\ UNCHANGED <<file, remaining, status, urls, u, githubUrls, g, netScore,
                   packageId, d, stdout, logged>>
    /\ UNCHANGED <<dbVars, histVars, offVars>>

Next ==
    \/ ReadRateLimit
    \/ SkipEmptyLine
    \/ PushGithubUrl
    \/ \E answer \in RegistryAnswers : ResolveNpmUrl(answer)
    \/ IgnoreLine
    \/ StartEvaluation
    \/ NewNetScoreThrows
    \/ NewNetScore
    \/ \E k \in MetricKind : EvaluatorCompletes(k)
    \/ \E n \in DependencyCounts : EvaluateResolves(n)
    \/ WriteSummary
    \/ InsertPackage
    \/ InsertPackageFails
    \/ InsertDependency
    \/ InsertDependencyFails
    \/ InsertMetrics
    \/ InsertMetricsFails
    \/ InsertScores
    \/ InsertScoresFails
    \/ ProcessUrlsReturns

Spec == Init /\ [][Next]_vars

\* ---------------------------------------------------- the classifier alone

\* The characters the classifier's inputs are made of: two letters that differ
\* in case only, and the three characters LIKE reads as more than themselves.
ClsChars == {"a", "A", "_", "%", "\\"}

StringsUpTo(n) == UNION {[1..k -> ClsChars] : k \in 0..n}

\* The urls of the two example dependencies of database.sql.
AcmeLoggerUrl == HTTPS \o InternalDomain
                   \o <<"/","p","a","c","k","a","g","e","/","a","c","m","e","-","l","o","g","g","e","r">>

UnderscoreUrl == HTTPS \o NPMJS_COM
                   \o <<"/","p","a","c","k","a","g","e","/","u","n","d","e","r","s","c","o","r","e">>

ClsUrls == StringsUpTo(MaxUrlLen) \cup {AcmeLoggerUrl, UnderscoreUrl}

ClsDomains == StringsUpTo(MaxDomainLen) \cup {InternalDomain}

InitClassify ==
    /\ pc = "off"
    /\ file = << <<>> >>
    /\ remaining = QuotaFloor
    /\ status = -1
    /\ urls = <<>>
    /\ u = 0
    /\ githubUrls = <<>>
    /\ g = 0
    /\ netScore = NoNetScore
    /\ packageId = NoPackageId
    /\ d = 0
    /\ stdout = <<>>
    /\ logged = <<>>
    /\ packages_combined = ExampleRows
    /\ dependencies = <<>>
    /\ metrics = <<>>
    /\ scores = <<>>
    /\ evalStarted = <<>>
    /\ evalCompleted = <<>>
    /\ finished = <<>>
    /\ pkgSent = <<>>
    /\ quotaSeen = <<>>
    /\ clsPc = "call"
    /\ clsUrl \in ClsUrls
    /\ clsDomain \in ClsDomains
    /\ clsResult = FALSE
    /\ exited = <<>>
    /\ CallIdle
    /\ TestsIdle

\* SELECT is_internal_dependency(clsUrl) with clsDomain in the constants table.
Classify ==
    /\ clsPc = "call"
    /\ clsResult' = is_internal_dependency(clsUrl, clsDomain)
    /\ clsPc' = "returned"
    /\ UNCHANGED <<clsUrl, clsDomain, runVars, dbVars, histVars, exited, callVars, testVars>>

NextClassify == Classify

SpecClassify == InitClassify /\ [][NextClassify]_vars

\* ------------------------------------------------ the first loop alone

\* Lines 171-193: the file is read and its lines are resolved; the run is
\* followed up to the end of the first loop.
NextResolve ==
    \/ ReadRateLimit
    \/ SkipEmptyLine
    \/ PushGithubUrl
    \/ \E answer \in RegistryAnswers : ResolveNpmUrl(answer)
    \/ IgnoreLine

InitResolve ==
    /\ pc = "start"
    /\ file \in FilesWithBlanks
    /\ remaining \in StartQuotas
    /\ status = -1
    /\ urls = <<>>
    /\ u = 0
    /\ githubUrls = <<>>
    /\ g = 0
    /\ netScore = NoNetScore
    /\ packageId = NoPackageId
    /\ d = 0
    /\ stdout = <<>>
    /\ logged = <<>>
    /\ packages_combined = ExampleRows
    /\ dependencies = <<>>
    /\ metrics = <<>>
    /\ scores = <<>>
    /\ evalStarted = <<>>
    /\ evalCompleted = <<>>
    /\ finished = <<>>
    /\ pkgSent = <<>>
    /\ quotaSeen = <<>>
    /\ ClsIdle
    /\ exited = <<>>
    /\ CallIdle
    /\ TestsIdle

SpecResolve == InitResolve /\ [][NextResolve]_vars

\* ------------------------------------------- batches of GitHub lines

\* The files whose lines all contain 'github.com': every line is listed by the
\* first loop and the run is the second loop's.
GithubFiles == UNION {[1..n -> {L_GH, L_GH_BAD, L_GH_INT}] : n \in 1..MaxLines}

InitPersist == Init /\ file \in GithubFiles

NextPersist ==
    \/ ReadRateLimit
    \/ PushGithubUrl
    \/ StartEvaluation
    \/ NewNetScoreThrows
    \/ NewNetScore
    \/ \E k \in MetricKind : EvaluatorCompletes(k)
    \/ \E n \in DependencyCounts : EvaluateResolves(n)
    \/ WriteSummary
    \/ InsertPackage
    \/ InsertPackageFails
    \/ InsertDependency
    \/ InsertDependencyFails
    \/ InsertMetrics
    \/ InsertMetricsFails
    \/ InsertScores
    \/ InsertScoresFails
    \/ ProcessUrlsReturns

SpecPersist == InitPersist /\ [][NextPersist]_vars

\* ------------------------------------------------- functions on their own

\* processUrls is not running.
ProcessUrlsOff ==
    /\ pc = "off"
    /\ file = << <<>> >>
    /\ status = -1
    /\ urls = <<>>
    /\ u = 0
    /\ githubUrls = <<>>
    /\ g = 0
    /\ netScore = NoNetScore
    /\ packageId = NoPackageId
    /\ d = 0
    /\ stdout = <<>>
    /\ logged = <<>>
    /\ packages_combined = ExampleRows
    /\ dependencies = <<>>
    /\ metrics = <<>>
    /\ scores = <<>>
    /\ evalStarted = <<>>
    /\ evalCompleted = <<>>
    /\ finished = <<>>
    /\ pkgSent = <<>>
    /\ quotaSeen = <<>>

\* A call of the function fn with the arguments args is about to be made.
Calling(fn, args) ==
    /\ ProcessUrlsOff
    /\ remaining = QuotaFloor
    /\ ClsIdle
    /\ exited = <<>>
    /\ TestsIdle
    /\ callPc = fn
    /\ callArgs = args
    /\ callResult = NoResult

\* What a function called on its own leaves alone.
callFrame == <<callArgs, runVars, dbVars, histVars, clsVars, exited, testVars>>

\* ---- new Metrics(NativeURL, url)

\* What the urls handed to the constructor are put together from.
UrlPieces == {GITHUB_COM, <<"/">>, <<"o">>, <<"r">>}

RECURSIVE Concat(_)
Concat(pieces) == IF pieces = <<>> THEN <<>> ELSE Head(pieces) \o Concat(Tail(pieces))

MetricsUrls ==
    {Concat(q) : q \in UNION {[1..n -> UrlPieces] : n \in 0..MaxPieces}}
        \cup {L_GH, L_GH_BAD, L_GH_INT, L_NPM, L_OTHER}

InitMetrics ==
    \E url \in MetricsUrls :
        \E native \in {url, L_NPM} :
            Calling("Metrics", [NativeURL |-> native, url |-> url])

\* Metrics.ts lines 122-128 with getRepoData: the fields of the new object, or
\* the Error 'Invalid GitHub URL: ...'.
NewMetrics ==
    /\ callPc = "Metrics"
    /\ LET data == getRepoData(callArgs.url)
       IN  callResult' =
               IF data.threw
               THEN [threw |-> TRUE, NativeURL |-> <<>>, url |-> <<>>,
                     owner |-> <<>>, repo |-> <<>>]
               ELSE [threw |-> FALSE, NativeURL |-> callArgs.NativeURL,
                     url |-> callArgs.url, owner |-> data.owner, repo |-> data.repo]
    /\ callPc' = "returned"
    /\ UNCHANGED callFrame

NextMetrics == NewMetrics

SpecMetrics == InitMetrics /\ [][NextMetrics]_vars

\* ---- getGithubUrlFromNpm

\* ssh://git@
SSH_GIT_AT == SubSeq(SSH_GIT_AT_GITHUB, 1, Len(SSH_GIT_AT_GITHUB) - Len(GITHUB_COM))

\* github-com : the host with another character where github.com has its dot
GITHUB_DASH_COM == <<"g","i","t","h","u","b","-","c","o","m">>

\* The repository urls the registry may hold: a scheme, a host, a path, an ending.
RepositoryUrls ==
    { pre \o host \o path \o suf :
        pre \in {<<>>, HTTPS, GIT_PLUS \o HTTPS, GIT_SCHEME, SSH_GIT_AT, GIT_PLUS \o SSH_GIT_AT},
        host \in {GITHUB_COM, GITHUB_DASH_COM, GITLAB_COM},
        path \in {<<"/","o","/","r">>, <<"/","o","/">> \o GITHUB_COM},
        suf \in {<<>>, DOT_GIT} }

NpmAnswers == {RegistryError, NoRepository} \cup {RepositoryUrl(x) : x \in RepositoryUrls}

\* An npm url, and one that ends in '/' and so names no package.
NpmUrls == {L_NPM, L_NPM \o <<"/">>}

InitNpm ==
    \E npmUrl \in NpmUrls, answer \in NpmAnswers :
        Calling("getGithubUrlFromNpm", [npmUrl |-> npmUrl, answer |-> answer])

\* Lines 63-87: every path through the function returns; the catch returns null.
CallGetGithubUrlFromNpm ==
    /\ callPc = "getGithubUrlFromNpm"
    /\ callResult' = [threw |-> FALSE,
                      value |-> getGithubUrlFromNpm(callArgs.npmUrl, callArgs.answer)]
    /\ callPc' = "returned"
    /\ UNCHANGED callFrame

NextNpm == CallGetGithubUrlFromNpm

SpecNpm == InitNpm /\ [][NextNpm]_vars

\* ---- the ASSERT functions

\* The numbers 0.00, 0.01, ... as their literals denote them.
Numbers == {Literal(j, 100) : j \in 0..MaxCenti}

Thresholds == {Literal(5, 1000), Literal(1, 100), Literal(2, 100)}

AssertFunctions == {"ASSERT_EQ", "ASSERT_NEAR", "ASSERT_LT", "ASSERT_GT"}

InitAssert ==
    \E fn \in AssertFunctions, actual \in Numbers, expected \in Numbers, threshold \in Thresholds :
        /\ fn # "ASSERT_NEAR" => threshold = Literal(1, 100)
        /\ Calling(fn, [actual |-> actual, expected |-> expected, threshold |-> threshold])

CallAssertEq ==
    /\ callPc = "ASSERT_EQ"
    /\ callResult' = [fn |-> "ASSERT_EQ",
                      value |-> ASSERT_EQ(callArgs.actual, callArgs.expected)]
    /\ callPc' = "returned"
    /\ UNCHANGED callFrame

CallAssertNear ==
    /\ callPc = "ASSERT_NEAR"
    /\ callResult' = [fn |-> "ASSERT_NEAR",
                      value |-> ASSERT_NEAR(callArgs.actual, callArgs.expected,
                                            callArgs.threshold)]
    /\ callPc' = "returned"
    /\ UNCHANGED callFrame

CallAssertLt ==
    /\ callPc = "ASSERT_LT"
    /\ callResult' = [fn |-> "ASSERT_LT",
                      value |-> ASSERT_LT(callArgs.actual, callArgs.expected)]
    /\ callPc' = "returned"
    /\ UNCHANGED callFrame

CallAssertGt ==
    /\ callPc = "ASSERT_GT"
    /\ callResult' = [fn |-> "ASSERT_GT",
                      value |-> ASSERT_GT(callArgs.actual, callArgs.expected)]
    /\ callPc' = "returned"
    /\ UNCHANGED callFrame

NextAssert ==
    \/ CallAssertEq
    \/ CallAssertNear
    \/ CallAssertLt
    \/ CallAssertGt

SpecAssert == InitAssert /\ [][NextAssert]_vars

\* ---- the net score

\* The scores an evaluator may give: 0, 1/ScoreScale, ..., 1.
Scores == 0..ScoreScale

\* The weight vectors: a weight per sub-metric, none negative, summing to 1.
WeightVectors ==
    {w \in [MetricKind -> 0..WeightScale] : SumOver(w, MetricKind) = WeightScale}

InitNetScore ==
    \E weight \in WeightVectors, score \in [MetricKind -> Scores] :
        Calling("netScore", [weight |-> weight, score |-> score])

\* The net score of a NetScore whose five sub-scores are in.
ComputeNetScore ==
    /\ callPc = "netScore"
    /\ callResult' = WeightedSum(callArgs.weight, callArgs.score)
    /\ callPc' = "returned"
    /\ UNCHANGED callFrame

NextNetScore == ComputeNetScore

SpecNetScore == InitNetScore /\ [][NextNetScore]_vars

\* ---- the initialization of Metrics.ts

\* process.env.X of a variable that is not set.
Undefined == <<"undefined">>

UpperCase == <<"A","B","C","D","E","F","G","H","I","J","K","L","M",
               "N","O","P","Q","R","S","T","U","V","W","X","Y","Z">>

LowerCase == <<"a","b","c","d","e","f","g","h","i","j","k","l","m",
               "n","o","p","q","r","s","t","u","v","w","x","y","z">>

\* String.prototype.toLowerCase on the characters of the inputs.
ToLowerCase(s) ==
    [i \in 1..Len(s) |->
        IF \E k \in 1..Len(UpperCase) : UpperCase[k] = s[i]
        THEN LowerCase[CHOOSE k \in 1..Len(UpperCase) : UpperCase[k] = s[i]]
        ELSE s[i]]

LEVEL_ERROR == <<"e","r","r","o","r">>

LEVEL_INFO == <<"i","n","f","o">>

LEVEL_DEBUG == <<"d","e","b","u","g">>

\* The switch of lines 34-44 without its break statements: every case runs on
\* into the last.
MapLogLevelFallsThrough(level) ==
    IF level \in {<<"0">>, <<"1">>, <<"2">>} THEN LEVEL_DEBUG ELSE level

\* Lines 34-44: the switch on logLevel.
MapLogLevel(level) ==
    CASE level = <<"0">> -> LEVEL_ERROR
      [] level = <<"1">> -> LEVEL_INFO
      [] level = <<"2">> -> LEVEL_DEBUG
      [] OTHER -> level

\* !x of a value that is a string or undefined.
Falsy(x) == x = Undefined \/ x = <<>>

\* Lines 15-59: the three checks in the order of the file; what is thrown
\* ends the initialization.
ModuleInit(env) ==
    LET failed(message) == [threw |-> TRUE, message |-> message, logLevel |-> Undefined]
        logLevel == IF env.LOG_LEVEL = Undefined
                    THEN Undefined
                    ELSE ToLowerCase(env.LOG_LEVEL)
    IN  IF Falsy(env.GITHUB_TOKEN)
        THEN failed("GITHUB_TOKEN is not defined in the .env file")
        ELSE IF Falsy(logLevel)
        THEN failed("LOG_LEVEL is not defined in the .env file")
        ELSE IF Falsy(env.LOG_FILE)
        THEN failed("LOG_FILE is not defined in the .env file")
        ELSE [threw |-> FALSE, message |-> "", logLevel |-> MapLogLevel(logLevel)]

\* A variable that is not set, one set to the empty string, one set to a value.
EnvTokens == {Undefined, <<>>, <<"t">>}

EnvFiles == {Undefined, <<>>, <<"f">>}

LevelChars == {"0", "1", "2", "3", "I"}

EnvLevels ==
    {Undefined, <<"D","E","B","U","G">>, <<"d","e","b","u","g">>, <<"I","n","f","o">>}
        \cup UNION {[1..n -> LevelChars] : n \in 0..MaxLevelLen}

InitEnv ==
    \E token \in EnvTokens, level \in EnvLevels, logfile \in EnvFiles :
        Calling("Metrics.ts", [GITHUB_TOKEN |-> token, LOG_LEVEL |-> level,
                               LOG_FILE |-> logfile])

ImportMetrics ==
    /\ callPc = "Metrics.ts"
    /\ callResult' = ModuleInit(callArgs)
    /\ callPc' = "returned"
    /\ UNCHANGED callFrame

NextEnv == ImportMetrics

SpecEnv == InitEnv /\ [][NextEnv]_vars

\* --------------------------------------------------------------- runTests

\* The six suites in the order of lines 124-134.
Suites == <<"License", "BusFactor", "Correctness", "RampUp", "Maintainability", "NetScore">>

\* The rate limit runTests may find: below the floor, at it, above it.
TestQuotas == {QuotaFloor - 1, QuotaFloor, QuotaFloor + 1}

InitTests ==
    /\ ProcessUrlsOff
    /\ remaining \in TestQuotas
    /\ ClsIdle
    /\ CallIdle
    /\ exited = <<>>
    /\ testPc = "start"
    /\ suiteEvents = <<>>
    /\ apiRemaining = <<>>

\* What runTests never reads or writes.
testFrame == <<pc, file, urls, u, githubUrls, g, netScore, packageId, d, logged,
               dbVars, histVars, clsVars, callVars>>

\* Line 113: the rate limit is read.
RunTestsReadsRateLimit ==
    /\ testPc = "start"
    /\ status' = remaining
    /\ testPc' = "checked"
    /\ UNCHANGED <<remaining, stdout, exited, suiteEvents, apiRemaining, testFrame>>

\* The test of line 118 with <= in the place of < .
RateLimitAtMost(r) == r <= QuotaFloor

\* Line 118: status.data.rate.remaining < 300
RateLimitTooLow(r) == r < QuotaFloor

\* Lines 118-121: the warning and exit(1).
RunTestsExits ==
    /\ testPc = "checked"
    /\ RateLimitTooLow(status)
    /\ exited' = Append(exited, 1)
    /\ testPc' = "exited"
    /\ UNCHANGED <<remaining, status, stdout, suiteEvents, apiRemaining, testFrame>>

\* Lines 124-134: the next suite is called; apiRemaining has one element for
\* each suite that has returned.
SuiteStarts ==
    /\ \/ testPc = "checked" /\ ~RateLimitTooLow(status)
       \/ testPc = "between"
    /\ Len(apiRemaining) < Len(Suites)
    /\ suiteEvents' = Append(suiteEvents,
                             [suite |-> Suites[Len(apiRemaining) + 1], ev |-> "start"])
    /\ testPc' = "running"
    /\ UNCHANGED <<remaining, status, stdout, exited, apiRemaining, testFrame>>

\* The awaited suite returns, having made used calls to the API; its result
\* is pushed and the rate limit read again and pushed to apiRemaining.
SuiteCompletes(used) ==
    /\ testPc = "running"
    /\ suiteEvents' = Append(suiteEvents,
                             [suite |-> Suites[Len(apiRemaining) + 1], ev |-> "end"])
    /\ remaining' = IF remaining >= used THEN remaining - used ELSE 0
    /\ apiRemaining' = Append(apiRemaining, remaining')
    /\ testPc' = "between"
    /\ UNCHANGED <<status, stdout, exited, testFrame>>

\* Lines 137-161: the totals are written.
RunTestsReports ==
    /\ testPc = "between"
    /\ Len(apiRemaining) = Len(Suites)
    /\ stdout' = Append(stdout, [src |-> 0, computed |-> FALSE])
    /\ testPc' = "done"
    /\ UNCHANGED <<remaining, status, exited, suiteEvents, apiRemaining, testFrame>>

\* The calls to the API one suite may make.
SuiteCalls == {0, 1}

NextTests ==
    \/ RunTestsReadsRateLimit
    \/ RunTestsExits
    \/ SuiteStarts
    \/ \E used \in SuiteCalls : SuiteCompletes(used)
    \/ RunTestsReports

SpecTests == InitTests /\ [][NextTests]_vars

\* ------------------------------------------------------------ the claims

Range(q) == {q[i] : i \in 1..Len(q)}

Increasing(q) == \A i, j \in 1..Len(q) : i < j => q[i] < q[j]

Terminated == pc \in {"done", "returned", "rejected"}

\* The input lines of the entries of githubUrls, in the order of the list.
EntryLines == [i \in 1..Len(githubUrls) |-> githubUrls[i].line]

\* The rows this run inserted into a table, as the input lines they came from.
RunRows(table) == SelectSeq(table, LAMBDA r : r.src # 0)

SrcOf(table) == [i \in 1..Len(RunRows(table)) |-> RunRows(table)[i].src]

\* C1: a rate limit below the safety floor at the start of the run means no
\* package is evaluated, written or inserted; and no evaluation ever starts
\* with the rate limit below the floor.
C1_QuotaFloorStopsEvaluation ==
    /\ status \in 0..(QuotaFloor - 1) =>
           /\ evalStarted = <<>>
           /\ stdout = <<>>
           /\ pkgSent = <<>>
    /\ (pc = "evaluate" /\ netScore.completed = {}) => remaining >= QuotaFloor

\* C2: packages are evaluated in the order of their lines in the input file,
\* and their summary lines are written in that same order.
C2_EvaluationFollowsInputOrder ==
    /\ Increasing(EntryLines)
    /\ Increasing(evalStarted)
    /\ Increasing([i \in 1..Len(stdout) |-> stdout[i].src])
    /\ evalStarted = SubSeq(EntryLines, 1, Len(evalStarted))
    /\ \A i \in 1..Len(stdout) : stdout[i].src = evalStarted[i]

\* C2's case: two packages of one batch have been evaluated and written.
C2_Witness == Len(stdout) = 2 /\ Len(evalStarted) = 2

\* C3: an entry that cannot be turned into a repository identity is skipped and
\* every resolvable entry of the batch is still evaluated: unless a package
\* insert ended the run, the run ends with every resolvable entry evaluated.
C3_UnresolvableEntryDoesNotStopBatch ==
    (pc \in {"done", "rejected"}) =>
        \A i \in 1..Len(githubUrls) :
            RegexMatches(githubUrls[i].url) => githubUrls[i].line \in Range(evalStarted)

\* C4: every metrics row and every scores row carries the package_id that the
\* package insert of the same package returned.
C4_RowsCarryReturnedPackageId ==
    /\ \A i \in 1..Len(RunRows(metrics)) :
           \E j \in 1..Len(packages_combined) :
               /\ packages_combined[j].src = RunRows(metrics)[i].src
               /\ packages_combined[j].package_id = RunRows(metrics)[i].package_id
    /\ \A i \in 1..Len(RunRows(scores)) :
           \E j \in 1..Len(packages_combined) :
               /\ packages_combined[j].src = RunRows(scores)[i].src
               /\ packages_combined[j].package_id = RunRows(scores)[i].package_id

\* Every entry of githubUrls is one the Metrics constructor accepts.
AllResolvable == \A i \in 1..Len(githubUrls) : RegexMatches(githubUrls[i].url)

C6_OnePackageAtATime ==
    /\ Cardinality(Range(evalStarted) \ Range(finished)) <= 1
    /\ Len(evalStarted) = Cardinality(Range(evalStarted))
    /\ \A i \in 1..(Len(evalStarted) - 1) :
           /\ evalStarted[i] \in Range(finished)
           /\ evalStarted[i] \in Range(pkgSent)
           /\ \E k \in 1..Len(stdout) : stdout[k].src = evalStarted[i]

\* C6's case: a second package is being evaluated after the first was persisted.
C6_Witness == pc = "evaluate" /\ Len(evalStarted) = 2 /\ Len(RunRows(scores)) = 1

C8_ClassifierIsSubstringTest ==
    clsPc = "returned" => (clsResult <=> Includes(clsUrl, clsDomain))

\* C9: the is_internal flag stored for a package is true exactly when its
\* repository link contains the internal domain.
C9_StoredFlagMatchesDomain ==
    \A i \in 1..Len(packages_combined) :
        packages_combined[i].is_internal
            <=> Includes(packages_combined[i].repo_link, InternalDomain)

\* C10: the store holds at most one package row for a package name and version.
C10_OneRowPerNameAndVersion ==
    \A i, j \in 1..Len(packages_combined) :
        ( /\ packages_combined[i].package_name = packages_combined[j].package_name
          /\ packages_combined[i].package_version = packages_combined[j].package_version )
            => i = j

\* The exit status of the process: the code handed to process.exit, and 0 when
\* the process ends without that call.
ExitStatus == IF exited = <<>> THEN 0 ELSE exited[1]

\* C11: when the rate limit is found below the floor at the start of a later
\* package of a batch that began above it, the run ends with a non-zero exit
\* status (after the results of the packages before it were written and stored).
C11_BreachEndsRunNonZero ==
    ( /\ pc = "done"
      /\ status >= QuotaFloor
      /\ \E i \in 1..Len(quotaSeen) : quotaSeen[i] < QuotaFloor )
        => ExitStatus # 0

\* The characters String.prototype.trim removes, as far as the inputs have them.
Whitespace == {" ", "\t", "\r"}

IsBlank(line) == \A i \in 1..Len(line) : line[i] \in Whitespace

WithoutBlanks(lines) == SelectSeq(lines, LAMBDA l : ~IsBlank(l))

\* The pairs of githubUrls without the line numbers kept as history.
Pairs(list) == [i \in 1..Len(list) |-> [native |-> list[i].native, url |-> list[i].url]]

\* C13: the NativeURL of an entry and of the NetScore built from it is the
\* input line as the file has it: a GitHub line is its own url, an npm line
\* stays the npm url beside the GitHub url it resolved to, and the NetScore
\* keeps it through evaluation, output and inserts.
C13_NativeUrlIsInputLine ==
    /\ \A i \in 1..Len(githubUrls) :
           LET e == githubUrls[i]
           IN  /\ e.native = urls[e.line]
               /\ e.url # e.native =>
                      /\ ~Includes(e.native, GITHUB_COM)
                      /\ Includes(e.native, NPMJS_COM)
                      /\ Includes(e.url, GITHUB_COM)
    /\ netScore # NoNetScore =>
           /\ netScore.NativeURL = file[netScore.src]
           /\ \E i \in 1..Len(githubUrls) :
                  /\ githubUrls[i].line = netScore.src
                  /\ githubUrls[i].url = netScore.url

\* C13's case: the NetScore of an npm line, resolved to a GitHub url, has been
\* evaluated and its inserts are under way.
C13_Witness ==
    /\ pc = "insert_scores"
    /\ netScore.NativeURL = L_NPM
    /\ netScore.url = L_GH

\* C14: the entries the first loop has collected from the lines read so far
\* are the entries it collects from those lines with the blank ones (empty or
\* whitespace only) taken out, for some answers of the registry; the second
\* loop reads nothing but these entries.
C14_BlankLinesIgnored ==
    pc = "resolve" =>
        LET kept == WithoutBlanks(SubSeq(urls, 1, u - 1))
        IN  \E answers \in [1..Len(kept) -> RegistryAnswers] :
                Pairs(githubUrls) = ResolveLines(kept, answers)

\* C14's case: a file with an empty line, a whitespace line or both among its
\* lines has been read to its end and gave an entry.
C14_Witness ==
    /\ pc = "resolve"
    /\ u > Len(urls)
    /\ \E i \in 1..Len(urls) : urls[i] = L_BLANK
    /\ githubUrls # <<>>

\* The lines of stdout that are not the line of a package.
SummaryLines == SelectSeq(stdout, LAMBDA l : l.src = 0)

\* C15: when processUrls has run to its end (here: of a batch with a package
\* processed), a final summary with the numbers of packages processed and
\* skipped has been written.
C15_FinalSummaryEmitted ==
    (pc = "done" /\ finished # <<>>) => SummaryLines # <<>>

\* ---- C12

NoSlash(q) == \A i \in 1..Len(q) : q[i] # "/"

\* 'github.com/<owner>/<repo>' with owner and repo not empty stands at p.
PatternAt(url, p) ==
    LET a == p + Len(GITHUB_COM) + 1
    IN  \E q \in (a + 1)..(Len(url) - 1) :
            /\ SubSeq(url, p, a - 1) = GITHUB_COM \o <<"/">>
            /\ url[q] = "/"
            /\ NoSlash(SubSeq(url, a, q - 1))
            /\ url[q + 1] # "/"

\* url reads 'github.com/' owner '/' repo from p on, and repo ends there.
ReadsAt(url, p, owner, repo) ==
    LET m == GITHUB_COM \o <<"/">> \o owner \o <<"/">> \o repo
    IN  /\ p + Len(m) - 1 <= Len(url)
        /\ SubSeq(url, p, p + Len(m) - 1) = m
        /\ p + Len(m) <= Len(url) => url[p + Len(m)] = "/"

\* C12: the Metrics constructor throws exactly when the url holds no
\* 'github.com/<owner>/<repo>' with owner and repo not empty; when it does not
\* throw, owner and repo are the two segments that follow 'github.com/' at the
\* first place the url holds that pattern, and url and NativeURL are kept.
C12_ConstructorFailsExactlyOnBadUrl ==
    (callPc = "returned") =>
        LET url == callArgs.url
            r == callResult
        IN  /\ r.threw <=> ~ \E p \in 1..Len(url) : PatternAt(url, p)
            /\ ~r.threw =>
                   /\ r.owner # <<>> /\ NoSlash(r.owner)
                   /\ r.repo # <<>> /\ NoSlash(r.repo)
                   /\ \E p \in 1..Len(url) :
                          /\ ReadsAt(url, p, r.owner, r.repo)
                          /\ \A o \in 1..(p - 1) : ~PatternAt(url, o)
                   /\ r.url = url
                   /\ r.NativeURL = callArgs.NativeURL

\* C12's case: a url with owner and repo was accepted.
C12_Witness ==
    /\ callPc = "returned"
    /\ callArgs.url = GITHUB_COM \o <<"/","o","/","r">>
    /\ ~callResult.threw
    /\ callResult.owner = <<"o">>
    /\ callResult.repo = <<"r">>

\* ---- C16

\* C16: the net score is the weighted sum of the five sub-scores, and with
\* weights that sum to 1 and sub-scores in [0,1] it is in [0,1]; it is a
\* function of the sub-scores and the weights.
C16_NetScoreIsWeightedSumInUnitInterval ==
    (callPc = "returned") =>
        /\ callResult >= 0
        /\ callResult <= WeightScale * ScoreScale
        /\ callResult = callArgs.weight["rampUp"] * callArgs.score["rampUp"]
                        + callArgs.weight["busFactor"] * callArgs.score["busFactor"]
                        + callArgs.weight["correctness"] * callArgs.score["correctness"]
                        + callArgs.weight["license"] * callArgs.score["license"]
                        + callArgs.weight["maintainability"] * callArgs.score["maintainability"]

\* C16's case: sub-scores that differ, weights that differ, a net score strictly
\* between 0 and 1.
C16_Witness ==
    /\ callPc = "returned"
    /\ callResult > 0
    /\ callResult < WeightScale * ScoreScale
    /\ callArgs.score["license"] # callArgs.score["rampUp"]
    /\ callArgs.weight["license"] > callArgs.weight["rampUp"]

\* ---- C17

\* The normalization as the claim words it: 'ssh://git@github.com' is the text
\* to be found at the start.
ClaimedNormalize(repoUrl) ==
    LET s1 == StripGitPlus(repoUrl)
        s2 == IF StartsWith(s1, SSH_GIT_AT_GITHUB)
              THEN HTTPS \o GITHUB_COM \o SubSeq(s1, Len(SSH_GIT_AT_GITHUB) + 1, Len(s1))
              ELSE s1
    IN  ReplaceGitScheme(StripDotGit(s2))

\* C17: getGithubUrlFromNpm does not throw; it gives null for an empty package
\* name, a failed request, a missing repository and a repository url without
\* 'github.com', and otherwise the repository url without a leading 'git+',
\* with a leading 'ssh://git@github.com' made 'https://github.com', without a
\* trailing '.git' and with a leading 'git://' made 'https://'.
C17_NpmResolvesToNullOrNormalizedUrl ==
    (callPc = "returned") =>
        LET answer == callArgs.answer
        IN  /\ ~callResult.threw
            /\ callResult.value =
                   IF \/ LastSegment(callArgs.npmUrl) = <<>>
                      \/ answer.kind # "url"
                      \/ ~Includes(answer.url, GITHUB_COM)
                   THEN NoUrl
                   ELSE ClaimedNormalize(answer.url)

\* ---- C18, C19

\* C18: ASSERT_NEAR gives 1 exactly when |expected - actual| < threshold and 0
\* otherwise; ASSERT_EQ gives what ASSERT_NEAR gives with the threshold 0.01;
\* both give the same with actual and expected exchanged.
C18_AssertEqIsAssertNearAtOneHundredth ==
    (callPc = "returned") =>
        LET a == callArgs.actual
            e == callArgs.expected
            t == callArgs.threshold
        IN  /\ callResult.fn = "ASSERT_NEAR" =>
                   /\ callResult.value \in {0, 1}
                   /\ callResult.value = 1 <=> Abs(Minus(e, a)) < t
                   /\ callResult.value = ASSERT_NEAR(e, a, t)
            /\ callResult.fn = "ASSERT_EQ" =>
                   /\ callResult.value = ASSERT_NEAR(a, e, Literal(1, 100))
                   /\ callResult.value = ASSERT_EQ(e, a)

\* C18's case: ASSERT_EQ was called with two numbers a hundredth apart, the
\* pair on which < and <= part.
C18_Witness ==
    /\ callPc = "returned"
    /\ callResult.fn = "ASSERT_EQ"
    /\ callArgs.actual = 0
    /\ callArgs.expected = Literal(1, 100)
    /\ callResult.value = 0

\* C19: ASSERT_LT gives 1 exactly when actual < expected + 0.005, ASSERT_GT
\* exactly when actual > expected - 0.01, each 0 otherwise; and a pair that
\* ASSERT_EQ accepts is accepted by ASSERT_GT.
C19_AssertEqAcceptedImpliesAssertGt ==
    (callPc = "returned") =>
        LET a == callArgs.actual
            e == callArgs.expected
        IN  /\ callResult.fn = "ASSERT_LT" =>
                   /\ callResult.value \in {0, 1}
                   /\ callResult.value = 1 <=> a < Plus(e, Literal(5, 1000))
            /\ callResult.fn = "ASSERT_GT" =>
                   /\ callResult.value \in {0, 1}
                   /\ callResult.value = 1 <=> a > Minus(e, Literal(1, 100))
            /\ (callResult.fn = "ASSERT_EQ" /\ callResult.value = 1) =>
                   ASSERT_GT(a, e) = 1

\* ---- C20

\* C20: with a rate limit below 300 at its start runTests exits with status 1
\* and runs no suite; otherwise it does not exit and the suites run in the
\* order License, BusFactor, Correctness, RampUp, Maintainability, NetScore,
\* each one ending before the next begins.
C20_TestsExitBelowFloorElseRunInOrder ==
    LET order == <<"License", "BusFactor", "Correctness", "RampUp",
                   "Maintainability", "NetScore">>
    IN  /\ (testPc \notin {"idle", "start"} /\ status < 300) =>
               /\ suiteEvents = <<>>
               /\ apiRemaining = <<>>
               /\ testPc \in {"checked", "exited"}
        /\ testPc = "exited" => (exited = <<1>> /\ status < 300)
        /\ (testPc \notin {"idle", "start"} /\ status >= 300) => exited = <<>>
        /\ Len(suiteEvents) <= 2 * Len(order)
        /\ \A i \in 1..Len(suiteEvents) :
               suiteEvents[i] = [suite |-> order[(i + 1) \div 2],
                                 ev |-> IF i % 2 = 1 THEN "start" ELSE "end"]
        /\ testPc = "done" => Len(suiteEvents) = 2 * Len(order)

\* C20's case: with the rate limit at the floor the six suites have run.
C20_Witness ==
    /\ testPc = "done"
    /\ status = QuotaFloor
    /\ Len(suiteEvents) = 2 * Len(Suites)
    /\ exited = <<>>

\* ---- C21

\* The initialization as C21 describes it, with notDefined the values of a
\* variable that count as not defined.
InitializesAsClaimed(notDefined) ==
    (callPc = "returned") =>
        LET env == callArgs
            r == callResult
            lower == ToLowerCase(env.LOG_LEVEL)
        IN  /\ r.threw <=> \/ env.GITHUB_TOKEN \in notDefined
                           \/ env.LOG_LEVEL \in notDefined
                           \/ env.LOG_FILE \in notDefined
            /\ r.threw =>
                   r.message =
                       IF env.GITHUB_TOKEN \in notDefined
                       THEN "GITHUB_TOKEN is not defined in the .env file"
                       ELSE IF env.LOG_LEVEL \in notDefined
                       THEN "LOG_LEVEL is not defined in the .env file"
                       ELSE "LOG_FILE is not defined in the .env file"
            /\ ~r.threw =>
                   /\ \A i \in 1..Len(lower) : \A k \in 1..Len(UpperCase) :
                          lower[i] # UpperCase[k]
                   /\ r.logLevel = IF lower = <<"0">> THEN <<"e","r","r","o","r">>
                                   ELSE IF lower = <<"1">> THEN <<"i","n","f","o">>
                                   ELSE IF lower = <<"2">> THEN <<"d","e","b","u","g">>
                                   ELSE lower

\* C21 as claimed: the initialization of Metrics.ts fails when GITHUB_TOKEN,
\* LOG_LEVEL or LOG_FILE is not defined, the first of them in that order
\* named in the error, and otherwise the log level is the lower-cased
\* LOG_LEVEL with '0', '1', '2' made 'error', 'info', 'debug'.
C21_InitFailsWhenNotDefined == InitializesAsClaimed({Undefined})

\* C21 as amended: the same, with a variable set to the empty string failing
\* the initialization as one that is not set does.
C21_InitFailsWhenNotDefinedOrEmpty == InitializesAsClaimed({Undefined, <<>>})

\* C21's case: with the three variables set, LOG_LEVEL '0' became 'error'.
C21_Witness ==
    /\ callPc = "returned"
    /\ callArgs.LOG_LEVEL = <<"0">>
    /\ ~callResult.threw
    /\ callResult.logLevel = LEVEL_ERROR

\* ---- C22

\* The input lines that a failed insert of the given kind was logged for.
FailedLines(what) == {logged[i].line : i \in {k \in 1..Len(logged) : logged[k].what = what}}

\* The input lines of the rows this run inserted into a table.
RowLines(table) == {table[i].src : i \in 1..Len(table)} \ {0}

\* The input lines of everything evaluated, printed or handed to the database.
TouchedLines ==
    Range(evalStarted) \cup Range(pkgSent)
        \cup {stdout[i].src : i \in 1..Len(stdout)}
        \cup RowLines(packages_combined) \cup RowLines(dependencies)
        \cup RowLines(metrics) \cup RowLines(scores)

Attempts(table, what, s) ==
    Cardinality({i \in 1..Len(table) : table[i].src = s})
        + Cardinality({i \in 1..Len(logged) : logged[i].what = what /\ logged[i].line = s})

\* C23: for a package whose package insert succeeded the inserts are attempted
\* in the order dependencies, metrics, scores; each attempt either inserts its
\* row or logs its failure; whatever fails, the package goes through all of
\* them and the loop moves on to the next entry.
C23_FailedInsertsAreLoggedAndPassedOver ==
    \A s \in RowLines(packages_combined) :
        LET deps == Attempts(dependencies, "dependency", s)
            mets == Attempts(metrics, "metrics", s)
            scos == Attempts(scores, "scores", s)
        IN  /\ mets <= 1 /\ scos <= 1 /\ scos <= mets
            /\ IF s \in Range(finished)
               THEN /\ mets = 1 /\ scos = 1
                    /\ \A i \in 1..Len(githubUrls) : githubUrls[i].line = s => g > i
               ELSE /\ netScore.src = s
                    /\ pc \in {"insert_dependency", "insert_metrics", "insert_scores"}
                    /\ pc = "insert_dependency" =>
                           /\ d <= netScore.dependencies
                           /\ deps = d - 1 /\ mets = 0
                    /\ pc = "insert_metrics" =>
                           deps = netScore.dependencies /\ mets = 0
                    /\ pc = "insert_scores" =>
                           deps = netScore.dependencies /\ mets = 1 /\ scos = 0

\* C23's case: a dependency insert and the metrics insert of the first package
\* failed, its scores insert was made, and the second package is evaluated.
C23_Witness ==
    /\ Len(evalStarted) = 2
    /\ evalStarted[1] \in FailedLines("dependency") \cap FailedLines("metrics")
    /\ evalStarted[1] \in RowLines(scores)
    /\ evalStarted[1] \in RowLines(packages_combined)

\* ---- C24

\* C24: every url on the evaluation list has the owner and the repository the
\* Metrics constructor looks for, and no construction of an evaluator throws.
C24_ListedEntriesAreAccepted ==
    /\ \A i \in 1..Len(githubUrls) : ~getRepoData(githubUrls[i].url).threw
    /\ pc # "rejected"

====
